---- MODULE Spec2Model ----
(***************************************************************************)
(* A model of LinkedInScraper (src/linkedin_scraper.py): URL validation,   *)
(* HR classification, placeholder profile generation and the flattening    *)
(* loop of process_profiles, together with the summary figures main()      *)
(* derives from the rows.                                                  *)
(*                                                                         *)
(* A Python str is modelled as a sequence of one-character strings, so     *)
(* that strip(), lower(), the `in` substring test, f-string formatting and *)
(* urlparse() are computed character by character.  An optional value      *)
(* (None or a value) is the empty sequence or a one-element sequence.      *)
(***************************************************************************)
EXTENDS Integers, Sequences, FiniteSets, TLC

None == <<>>
Some(v) == <<v>>

(***************************************************************************)
(* Python string primitives used by the source.                            *)
(***************************************************************************)

\* `sub in s` for two strings.
Contains(s, sub) ==
    \E k \in 0..(Len(s) - Len(sub)) : SubSeq(s, k + 1, k + Len(sub)) = sub

\* Position of the first character of s that belongs to cs (0 when none),
\* as str.find does for one-character needles.
Find(s, cs) ==
    IF \E k \in 1..Len(s) : s[k] \in cs
    THEN CHOOSE k \in 1..Len(s) : s[k] \in cs /\ \A j \in 1..(k - 1) : s[j] \notin cs
    ELSE 0

Whitespace == {" ", "\t", "\n", "\r"}

RECURSIVE LStrip(_)
LStrip(s) == IF s # <<>> /\ Head(s) \in Whitespace THEN LStrip(Tail(s)) ELSE s

RECURSIVE RStrip(_)
RStrip(s) ==
    IF s # <<>> /\ s[Len(s)] \in Whitespace THEN RStrip(SubSeq(s, 1, Len(s) - 1)) ELSE s

\* str.strip()
Strip(s) == RStrip(LStrip(s))

UpperChars == <<"A", "B", "C", "D", "E", "F", "G", "H", "I", "J", "K", "L", "M", "N", "O", "P", "Q", "R", "S", "T", "U", "V", "W", "X", "Y", "Z">>
LowerChars == <<"a", "b", "c", "d", "e", "f", "g", "h", "i", "j", "k", "l", "m", "n", "o", "p", "q", "r", "s", "t", "u", "v", "w", "x", "y", "z">>
DigitChars == <<"0", "1", "2", "3", "4", "5", "6", "7", "8", "9">>

LowerChar(c) ==
    IF \E k \in 1..Len(UpperChars) : UpperChars[k] = c
    THEN LowerChars[CHOOSE k \in 1..Len(UpperChars) : UpperChars[k] = c]
    ELSE c

\* str.lower()
Lower(s) == [k \in 1..Len(s) |-> LowerChar(s[k])]

\* str(n) for n >= 0, as an f-string renders an int.
RECURSIVE Str(_)
Str(n) == IF n < 10 THEN <<DigitChars[n + 1]>> ELSE Str(n \div 10) \o <<DigitChars[(n % 10) + 1]>>

\* f"{n:02d}"
Fmt02d(n) == IF n < 10 THEN <<"0">> \o Str(n) ELSE Str(n)

(***************************************************************************)
(* LinkedInScraper.__init__ : the certification catalog (in insertion      *)
(* order, as list(dict.keys()) returns it) and the HR keywords.            *)
(***************************************************************************)
hr_certifications == <<
    [name |-> <<"S", "H", "R", "M", "-", "C", "P">>,  provider |-> <<"S", "H", "R", "M">>,        type |-> <<"H", "R", " ", "M", "a", "n", "a", "g", "e", "m", "e", "n", "t">>],
    [name |-> <<"S", "H", "R", "M", "-", "S", "C", "P">>, provider |-> <<"S", "H", "R", "M">>,        type |-> <<"H", "R", " ", "M", "a", "n", "a", "g", "e", "m", "e", "n", "t">>],
    [name |-> <<"P", "H", "R">>,      provider |-> <<"H", "R", "C", "I">>,        type |-> <<"H", "R", " ", "P", "r", "o", "f", "e", "s", "s", "i", "o", "n", "a", "l">>],
    [name |-> <<"S", "P", "H", "R">>,     provider |-> <<"H", "R", "C", "I">>,        type |-> <<"S", "e", "n", "i", "o", "r", " ", "H", "R", " ", "P", "r", "o", "f", "e", "s", "s", "i", "o", "n", "a", "l">>],
    [name |-> <<"G", "P", "H", "R">>,     provider |-> <<"H", "R", "C", "I">>,        type |-> <<"G", "l", "o", "b", "a", "l", " ", "H", "R", " ", "P", "r", "o", "f", "e", "s", "s", "i", "o", "n", "a", "l">>],
    [name |-> <<"S", "H", "R", "M", "-", "A", "P">>,  provider |-> <<"S", "H", "R", "M">>,        type |-> <<"A", "s", "i", "a", " ", "P", "a", "c", "i", "f", "i", "c", " ", "H", "R">>],
    [name |-> <<"C", "H", "R", "P">>,     provider |-> <<"H", "R", "P", "A">>,        type |-> <<"C", "h", "a", "r", "t", "e", "r", "e", "d", " ", "H", "R", " ", "P", "r", "o", "f", "e", "s", "s", "i", "o", "n", "a", "l">>],
    [name |-> <<"C", "H", "R", "L">>,     provider |-> <<"H", "R", "P", "A">>,        type |-> <<"C", "h", "a", "r", "t", "e", "r", "e", "d", " ", "H", "R", " ", "L", "e", "a", "d", "e", "r">>],
    [name |-> <<"C", "H", "R", "E">>,     provider |-> <<"H", "R", "P", "A">>,        type |-> <<"C", "h", "a", "r", "t", "e", "r", "e", "d", " ", "H", "R", " ", "E", "x", "e", "c", "u", "t", "i", "v", "e">>],
    [name |-> <<"C", "C", "P">>,      provider |-> <<"W", "o", "r", "l", "d", "a", "t", "W", "o", "r", "k">>, type |-> <<"C", "o", "m", "p", "e", "n", "s", "a", "t", "i", "o", "n", " ", "P", "r", "o", "f", "e", "s", "s", "i", "o", "n", "a", "l">>],
    [name |-> <<"C", "B", "P">>,      provider |-> <<"W", "o", "r", "l", "d", "a", "t", "W", "o", "r", "k">>, type |-> <<"B", "e", "n", "e", "f", "i", "t", "s", " ", "P", "r", "o", "f", "e", "s", "s", "i", "o", "n", "a", "l">>],
    [name |-> <<"G", "R", "P">>,      provider |-> <<"W", "o", "r", "l", "d", "a", "t", "W", "o", "r", "k">>, type |-> <<"G", "l", "o", "b", "a", "l", " ", "R", "e", "m", "u", "n", "e", "r", "a", "t", "i", "o", "n", " ", "P", "r", "o", "f", "e", "s", "s", "i", "o", "n", "a", "l">>] >>

hr_keywords == <<
    <<"h", "u", "m", "a", "n", " ", "r", "e", "s", "o", "u", "r", "c", "e", "s">>, <<"h", "r">>, <<"t", "a", "l", "e", "n", "t">>, <<"r", "e", "c", "r", "u", "i", "t", "i", "n", "g">>, <<"r", "e", "c", "r", "u", "i", "t", "m", "e", "n", "t">>,
    <<"p", "e", "o", "p", "l", "e">>, <<"e", "m", "p", "l", "o", "y", "e", "e">>, <<"w", "o", "r", "k", "f", "o", "r", "c", "e">>, <<"c", "o", "m", "p", "e", "n", "s", "a", "t", "i", "o", "n">>, <<"b", "e", "n", "e", "f", "i", "t", "s">>,
    <<"t", "r", "a", "i", "n", "i", "n", "g">>, <<"d", "e", "v", "e", "l", "o", "p", "m", "e", "n", "t">>, <<"l", "e", "a", "r", "n", "i", "n", "g">>, <<"o", "r", "g", "a", "n", "i", "z", "a", "t", "i", "o", "n", "a", "l">> >>

\* The titles of _generate_sample_job_title.
titles == <<
    <<"H", "R", " ", "M", "a", "n", "a", "g", "e", "r">>, <<"S", "e", "n", "i", "o", "r", " ", "H", "R", " ", "B", "u", "s", "i", "n", "e", "s", "s", " ", "P", "a", "r", "t", "n", "e", "r">>, <<"T", "a", "l", "e", "n", "t", " ", "A", "c", "q", "u", "i", "s", "i", "t", "i", "o", "n", " ", "S", "p", "e", "c", "i", "a", "l", "i", "s", "t">>,
    <<"C", "o", "m", "p", "e", "n", "s", "a", "t", "i", "o", "n", " ", "A", "n", "a", "l", "y", "s", "t">>, <<"H", "R", " ", "D", "i", "r", "e", "c", "t", "o", "r">>, <<"P", "e", "o", "p", "l", "e", " ", "O", "p", "e", "r", "a", "t", "i", "o", "n", "s", " ", "M", "a", "n", "a", "g", "e", "r">>,
    <<"R", "e", "c", "r", "u", "i", "t", "i", "n", "g", " ", "M", "a", "n", "a", "g", "e", "r">>, <<"E", "m", "p", "l", "o", "y", "e", "e", " ", "R", "e", "l", "a", "t", "i", "o", "n", "s", " ", "S", "p", "e", "c", "i", "a", "l", "i", "s", "t">>,
    <<"L", "e", "a", "r", "n", "i", "n", "g", " ", "a", "n", "d", " ", "D", "e", "v", "e", "l", "o", "p", "m", "e", "n", "t", " ", "M", "a", "n", "a", "g", "e", "r">> >>

(***************************************************************************)
(* urlparse(url), restricted to what is_valid_linkedin_url reads: whether  *)
(* parsing raises, the netloc and the path.                                *)
(***************************************************************************)
SchemeChars ==
    {UpperChars[k] : k \in 1..Len(UpperChars)} \cup {LowerChars[k] : k \in 1..Len(LowerChars)}
        \cup {DigitChars[k] : k \in 1..Len(DigitChars)} \cup {"+", "-", "."}

Letters ==
    {UpperChars[k] : k \in 1..Len(UpperChars)} \cup {LowerChars[k] : k \in 1..Len(LowerChars)}

\* The text after "scheme:" when url starts with a scheme, else url itself.
AfterScheme(url) ==
    LET c == Find(url, {":"})
    IN  IF c > 1 /\ url[1] \in Letters /\ \A k \in 1..(c - 1) : url[k] \in SchemeChars
        THEN SubSeq(url, c + 1, Len(url))
        ELSE url

HasNetloc(url) == LET r == AfterScheme(url) IN Len(r) >= 2 /\ SubSeq(r, 1, 2) = <<"/", "/">>

\* The authority: from after "//" up to the first of "/", "?", "#".
Netloc(url) ==
    LET r == AfterScheme(url)
        t == SubSeq(r, 3, Len(r))
        d == Find(t, {"/", "?", "#"})
    IN  IF ~HasNetloc(url) THEN <<>>
        ELSE IF d = 0 THEN t ELSE SubSeq(t, 1, d - 1)

\* What follows the authority, cut at the first "?" or "#" (and at ";").
Path(url) ==
    LET r == AfterScheme(url)
        t == IF HasNetloc(url)
             THEN SubSeq(r, 3 + Len(Netloc(url)), Len(r))
             ELSE r
        d == Find(t, {"?", "#", ";"})
    IN  IF d = 0 THEN t ELSE SubSeq(t, 1, d - 1)

\* urlsplit raises ValueError("Invalid IPv6 URL") on an unbalanced bracket.
UrlParseRaises(url) ==
    LET n == Netloc(url)
    IN  (Contains(n, <<"[">>) /\ ~Contains(n, <<"]">>))
        \/ (Contains(n, <<"]">>) /\ ~Contains(n, <<"[">>))

is_valid_linkedin_url(url) ==
    Contains(Netloc(url), <<"l", "i", "n", "k", "e", "d", "i", "n", ".", "c", "o", "m">>) /\ Contains(Path(url), <<"/", "i", "n", "/">>)

(***************************************************************************)
(* is_hr_related(job_title, department): department is optional.           *)
(***************************************************************************)
\* Variant: the text is not lowercased.
text_to_check_NoLower(job_title, department) ==
    job_title \o <<" ">> \o (IF department = None THEN <<>> ELSE department[1])

text_to_check(job_title, department) ==
    Lower(job_title \o <<" ">> \o (IF department = None THEN <<>> ELSE department[1]))

\* Variant: all() in place of any().
is_hr_related_AllKeywords(job_title, department) ==
    \A k \in 1..Len(hr_keywords) : Contains(text_to_check(job_title, department), hr_keywords[k])

is_hr_related(job_title, department) ==
    \E k \in 1..Len(hr_keywords) : Contains(text_to_check(job_title, department), hr_keywords[k])

(***************************************************************************)
(* The `random` module: a deterministic stream from its state.  The        *)
(* generator is abstracted to a full-period congruential one; every draw   *)
(* advances the state once.                                                *)
(***************************************************************************)
RandNext(r) == (r * 261 + 123) % 1024

\* The value in 0..n-1 a draw yields in state r (the state after advancing).
RandBelow(r, n) == (r \div 8) % n

\* random.choice(seq): [value, rng]
RandChoice(seq, r) ==
    LET r1 == RandNext(r) IN [value |-> seq[RandBelow(r1, Len(seq)) + 1], rng |-> r1]

\* random.randint(a, b): [value, rng]
RandInt(a, b, r) ==
    LET r1 == RandNext(r) IN [value |-> a + RandBelow(r1, b - a + 1), rng |-> r1]

(***************************************************************************)
(* hash(str): a function of the string and of the interpreter process's    *)
(* hash salt (str hashes are salted per process unless PYTHONHASHSEED is   *)
(* fixed).  The keyed hash is abstracted to a salted polynomial hash.      *)
(***************************************************************************)
Charset == UpperChars \o LowerChars \o DigitChars \o <<" ", ":", "/", ".", "@", "[", "]", "?", "#", "=", "-", "_">>

Ord(c) ==
    IF \E k \in 1..Len(Charset) : Charset[k] = c
    THEN CHOOSE k \in 1..Len(Charset) : Charset[k] = c
    ELSE 0

RECURSIVE HashFold(_, _)
HashFold(h, s) ==
    IF s = <<>> THEN h ELSE HashFold((h * 31 + Ord(Head(s))) % 65536, Tail(s))

hash(salt, s) == HashFold(salt, s)

(***************************************************************************)
(* Placeholder data generation.                                            *)
(***************************************************************************)
generate_sample_job_title(r) == RandChoice(titles, r)

\* The body of the loop `for _ in range(num_certs)`, n iterations.
RECURSIVE GenCerts(_, _)
GenCerts(n, r) ==
    IF n = 0 THEN [value |-> <<>>, rng |-> r]
    ELSE LET c  == RandChoice(hr_certifications, r)
             im == RandInt(1, 12, c.rng)
             iy == RandInt(2020, 2024, im.rng)
             rm == RandInt(1, 12, iy.rng)
             ry == RandInt(2025, 2027, rm.rng)
             cert == [name         |-> c.value.name,
                      provider     |-> c.value.provider,
                      type         |-> c.value.type,
                      issued_date  |-> Fmt02d(im.value) \o <<"/">> \o Str(iy.value),
                      renewal_date |-> Fmt02d(rm.value) \o <<"/">> \o Str(ry.value)]
             rest == GenCerts(n - 1, ry.rng)
         IN  [value |-> <<cert>> \o rest.value, rng |-> rest.rng]

generate_sample_certifications(r) ==
    LET num_certs == RandInt(0, 3, r) IN GenCerts(num_certs.value, num_certs.rng)

\* Variant: the job title is drawn before the URL is validated.
extract_profile_data_DrawsFirst(url, r, salt) ==
    LET jt == generate_sample_job_title(r)
        cs == generate_sample_certifications(jt.rng)
    IN  IF UrlParseRaises(url) THEN [raised |-> TRUE, data |-> None, rng |-> r]
        ELSE IF ~is_valid_linkedin_url(url) THEN [raised |-> FALSE, data |-> None, rng |-> jt.rng]
        ELSE [raised |-> FALSE,
              data   |-> Some([profile_name   |-> <<"S", "a", "m", "p", "l", "e", " ", "U", "s", "e", "r", " ">> \o Str(hash(salt, url) % 1000),
                               company_name   |-> <<"C", "o", "m", "p", "a", "n", "y", " ">> \o Str(hash(salt, url) % 100),
                               job_title      |-> jt.value,
                               department     |-> <<"H", "R">>,
                               location       |-> <<"U", "S", "A">>,
                               certifications |-> cs.value]),
              rng    |-> cs.rng]

\* extract_profile_data(url): [raised, data, rng]; data is None or Some(record).
\* Nothing in the try block raises for a str argument, so the except branch
\* is never taken; the exception of urlparse is raised outside the try.
extract_profile_data(url, r, salt) ==
    IF UrlParseRaises(url) THEN [raised |-> TRUE, data |-> None, rng |-> r]
    ELSE IF ~is_valid_linkedin_url(url) THEN [raised |-> FALSE, data |-> None, rng |-> r]
    ELSE LET jt == generate_sample_job_title(r)
             cs == generate_sample_certifications(jt.rng)
         IN  [raised |-> FALSE,
              data   |-> Some([profile_name   |-> <<"S", "a", "m", "p", "l", "e", " ", "U", "s", "e", "r", " ">> \o Str(hash(salt, url) % 1000),
                               company_name   |-> <<"C", "o", "m", "p", "a", "n", "y", " ">> \o Str(hash(salt, url) % 100),
                               job_title      |-> jt.value,
                               department     |-> <<"H", "R">>,
                               location       |-> <<"U", "S", "A">>,
                               certifications |-> cs.value]),
              rng    |-> cs.rng]

(***************************************************************************)
(* The rows process_profiles appends for one URL whose record is pd.       *)
(***************************************************************************)
base_data(url, pd) ==
    [profile_url   |-> url,
     profile_name  |-> pd.profile_name,
     company_name  |-> pd.company_name,
     job_title     |-> pd.job_title,
     department    |-> pd.department,
     location      |-> pd.location,
     is_hr_related |-> is_hr_related(pd.job_title, Some(pd.department))]

Row(base, name, provider, type, issued, renewal) ==
    [profile_url            |-> base.profile_url,
     profile_name           |-> base.profile_name,
     company_name           |-> base.company_name,
     job_title              |-> base.job_title,
     department             |-> base.department,
     location               |-> base.location,
     is_hr_related          |-> base.is_hr_related,
     certification          |-> name,
     certification_provider |-> provider,
     certification_type     |-> type,
     certification_issued   |-> issued,
     certification_renewal  |-> renewal]

\* Variant: a profile without certifications gets no row.
RowsOf_NoRowWithoutCerts(url, pd) ==
    LET base == base_data(url, pd)
        cs   == pd.certifications
    IN  [k \in 1..Len(cs) |->
            Row(base, cs[k].name, cs[k].provider, cs[k].type,
                cs[k].issued_date, cs[k].renewal_date)]

\* Variant: the certifications are flattened in reverse order.
RowsOf_Reversed(url, pd) ==
    LET base == base_data(url, pd)
        cs   == pd.certifications
        n    == Len(cs)
    IN  IF cs = <<>>
        THEN << Row(base, <<>>, <<>>, <<>>, <<>>, <<>>) >>
        ELSE [k \in 1..n |->
                 Row(base, cs[n + 1 - k].name, cs[n + 1 - k].provider, cs[n + 1 - k].type,
                     cs[n + 1 - k].issued_date, cs[n + 1 - k].renewal_date)]

RowsOf(url, pd) ==
    LET base == base_data(url, pd)
        cs   == pd.certifications
    IN  IF cs = <<>>
        THEN << Row(base, <<>>, <<>>, <<>>, <<>>, <<>>) >>
        ELSE [k \in 1..Len(cs) |->
                 Row(base, cs[k].name, cs[k].provider, cs[k].type,
                     cs[k].issued_date, cs[k].renewal_date)]

(***************************************************************************)
(* Figures main() derives from the rows.                                   *)
(***************************************************************************)
\* Variant: the rows are counted, not the distinct URLs.
TotalProfiles_CountsRows(rows) == Len(rows)

\* len(df_results['profile_url'].unique())
TotalProfiles(rows) == Cardinality({rows[k].profile_url : k \in 1..Len(rows)})

\* df_results['is_hr_related'].sum()
HrCount(rows) == Cardinality({k \in 1..Len(rows) : rows[k].is_hr_related})

IsHrRow(row) == row.is_hr_related

\* df_results[df_results['is_hr_related'] == True]
FilterHrOnly(rows) == SelectSeq(rows, IsHrRow)

(***************************************************************************)
(* Bounds and input sets.                                                  *)
(***************************************************************************)
MaxUrls == 2
MaxRuns == 2

UrlA == <<"h", "t", "t", "p", "s", ":", "/", "/", "w", "w", "w", ".", "l", "i", "n", "k", "e", "d", "i", "n", ".", "c", "o", "m", "/", "i", "n", "/", "a">>
UrlB == <<" ", "h", "t", "t", "p", "s", ":", "/", "/", "l", "i", "n", "k", "e", "d", "i", "n", ".", "c", "o", "m", "/", "i", "n", "/", "b", " ">>
UrlC == <<"h", "t", "t", "p", "s", ":", "/", "/", "l", "i", "n", "k", "e", "d", "i", "n", ".", "c", "o", "m", "/", "c", "o", "m", "p", "a", "n", "y", "/", "c">>
UrlE == <<"h", "t", "t", "p", "s", ":", "/", "/", "l", "i", "n", "k", "e", "d", "i", "n", ".", "c", "o", "m", "@", "e", "x", "a", "m", "p", "l", "e", ".", "c", "o", "m", "/", "i", "n", "/", "e">>
UrlR == <<"h", "t", "t", "p", ":", "/", "/", "[", "l", "i", "n", "k", "e", "d", "i", "n", ".", "c", "o", "m", "/", "i", "n", "/", "r">>

Urls == {UrlA, UrlB, UrlC, UrlE, UrlR}

UrlLists == UNION {[1..n -> Urls] : n \in 0..MaxUrls}

Seeds == {0, 1}
Salts == {0, 1}

(***************************************************************************)
(* State.                                                                  *)
(***************************************************************************)
VARIABLES
    urls,               \* the argument of process_profiles
    progress_callback,  \* whether a callback was passed
    i,                  \* the loop index (0-based): URLs completed so far
    pc,                 \* "loop", "extract", "append", "returned", "raised"
    profile_data,       \* the value extract_profile_data returned
    results,            \* the rows accumulated
    rng,                \* the state of the random module
    seed,               \* the state of the random module when the call began
    salt,               \* the hash salt of the interpreter process
    calls,              \* the invocations of the callback, in order
    fetched,            \* history: what extract_profile_data returned per URL
    owner,              \* history: for each row, the input position it came from
    run,                \* number of the current call
    prev,               \* None, or Some(summary of the previous call)
    arg_title,          \* is_hr_related called directly: job_title
    arg_department,     \*   department (optional)
    ret_hr              \*   None, or Some(result)

vars == <<urls, progress_callback, i, pc, profile_data, results, rng, seed, salt,
          calls, fetched, owner, run, prev, arg_title, arg_department, ret_hr>>

batchVars == <<urls, progress_callback, i, pc, profile_data, results, rng, seed, salt,
               calls, fetched, owner, run, prev>>

classifyVars == <<arg_title, arg_department, ret_hr>>

total_urls == Len(urls)

\* Entry of process_profiles: results = [], total_urls = len(urls).
Enter(us, cb, sd, st) ==
    /\ urls = us
    /\ progress_callback = cb
    /\ rng = sd
    /\ seed = sd
    /\ salt = st
    /\ i = 0
    /\ pc = "loop"
    /\ profile_data = None
    /\ results = <<>>
    /\ calls = <<>>
    /\ fetched = <<>>
    /\ owner = <<>>

Init ==
    /\ \E us \in UrlLists, cb \in BOOLEAN, sd \in Seeds, st \in Salts : Enter(us, cb, sd, st)
    /\ run = 1
    /\ prev = None
    /\ arg_title = <<>>
    /\ arg_department = None
    /\ ret_hr = None

\* Variant: the index is passed as it is.
ProgressArgs_ZeroBased(k, total) == [current |-> k, total |-> total]

\* The argument the callback receives at index k.
ProgressArgs(k, total) == [current |-> k + 1, total |-> total]

\* Loop head and `if progress_callback: progress_callback(i + 1, total_urls)`.
ProgressCallback ==
    /\ pc = "loop"
    /\ i < total_urls
    /\ calls' = IF progress_callback THEN Append(calls, ProgressArgs(i, total_urls)) ELSE calls
    /\ pc' = "extract"
    /\ UNCHANGED <<urls, progress_callback, i, profile_data, results, rng, seed, salt,
                   fetched, owner, run, prev>>
    /\ UNCHANGED classifyVars

\* profile_data = self.extract_profile_data(url.strip())
ExtractProfileData ==
    /\ pc = "extract"
    /\ LET r == extract_profile_data(Strip(urls[i + 1]), rng, salt)
       IN  IF r.raised
           THEN /\ pc' = "raised"
                /\ UNCHANGED <<profile_data, rng, fetched>>
           ELSE /\ pc' = "append"
                /\ profile_data' = r.data
                /\ rng' = r.rng
                /\ fetched' = Append(fetched, r.data)
    /\ UNCHANGED <<urls, progress_callback, i, results, seed, salt, calls, owner, run, prev>>
    /\ UNCHANGED classifyVars

\* `if profile_data:` and the appends of the iteration; then the next index.
AppendRows ==
    /\ pc = "append"
    /\ IF profile_data # None
       THEN LET new == RowsOf(urls[i + 1], profile_data[1])
            IN  /\ results' = results \o new
                /\ owner' = owner \o [k \in 1..Len(new) |-> i + 1]
       ELSE UNCHANGED <<results, owner>>
    /\ i' = i + 1
    /\ pc' = "loop"
    /\ UNCHANGED <<urls, progress_callback, profile_data, rng, seed, salt, calls, fetched,
                   run, prev>>
    /\ UNCHANGED classifyVars

\* return results
Return ==
    /\ pc = "loop"
    /\ i = total_urls
    /\ pc' = "returned"
    /\ UNCHANGED <<urls, progress_callback, i, profile_data, results, rng, seed, salt,
                   calls, fetched, owner, run, prev>>
    /\ UNCHANGED classifyVars

Summary == [urls |-> urls, seed |-> seed, salt |-> salt, outcome |-> pc, results |-> results]

\* The URLs for which extract_profile_data(url.strip()) is not None.
IsValidUrl(u) == is_valid_linkedin_url(Strip(u))
ValidOnly(us) == SelectSeq(us, IsValidUrl)

\* A further call in the same interpreter process, on the same list,
\* the caller having seeded the random module.
CallAgain ==
    /\ pc \in {"returned", "raised"}
    /\ run < MaxRuns
    /\ prev' = Some(Summary)
    /\ run' = run + 1
    /\ \E sd \in Seeds :
          /\ urls' = urls /\ progress_callback' = progress_callback
          /\ rng' = sd /\ seed' = sd /\ salt' = salt
    /\ i' = 0 /\ pc' = "loop" /\ profile_data' = None /\ results' = <<>>
    /\ calls' = <<>> /\ fetched' = <<>> /\ owner' = <<>>
    /\ UNCHANGED classifyVars

\* A further call in the same process, from the same random state, on the
\* valid URLs of the list alone.
CallValidOnly ==
    /\ pc = "returned"
    /\ run < MaxRuns
    /\ prev' = Some(Summary)
    /\ run' = run + 1
    /\ urls' = ValidOnly(urls) /\ progress_callback' = progress_callback
    /\ rng' = seed /\ seed' = seed /\ salt' = salt
    /\ i' = 0 /\ pc' = "loop" /\ profile_data' = None /\ results' = <<>>
    /\ calls' = <<>> /\ fetched' = <<>> /\ owner' = <<>>
    /\ UNCHANGED classifyVars

\* The program is run again in a new interpreter process, whose hash salt
\* differs, on the same list, the random module seeded as before.
CallInNewProcess ==
    /\ pc \in {"returned", "raised"}
    /\ run < MaxRuns
    /\ prev' = Some(Summary)
    /\ run' = run + 1
    /\ \E st \in Salts \ {salt} :
          /\ urls' = urls /\ progress_callback' = progress_callback
          /\ rng' = seed /\ seed' = seed /\ salt' = st
    /\ i' = 0 /\ pc' = "loop" /\ profile_data' = None /\ results' = <<>>
    /\ calls' = <<>> /\ fetched' = <<>> /\ owner' = <<>>
    /\ UNCHANGED classifyVars

Next ==
    \/ ProgressCallback
    \/ ExtractProfileData
    \/ AppendRows
    \/ Return
    \/ CallAgain
    \/ CallValidOnly
    \/ CallInNewProcess

Spec == Init /\ [][Next]_vars

(***************************************************************************)
(* is_hr_related called on its own: the arguments are drawn initially and  *)
(* the call stores its result.                                             *)
(***************************************************************************)
TitleHRManager == <<"H", "R", " ", "M", "a", "n", "a", "g", "e", "r">>
TitleSoftwareEngineer == <<"S", "o", "f", "t", "w", "a", "r", "e", " ", "E", "n", "g", "i", "n", "e", "e", "r">>
TitleTalentedArtist == <<"T", "a", "l", "e", "n", "t", "e", "d", " ", "A", "r", "t", "i", "s", "t">>
TitleHuman == <<"H", "u", "m", "a", "n">>

ClassifyTitles ==
    {TitleHRManager, TitleSoftwareEngineer, TitleTalentedArtist, TitleHuman,
     <<"T", "a", "l", "e", "n", "t", "e", "d", " ", "E", "n", "g", "i", "n", "e", "e", "r">>, <<"A", "c", "c", "o", "u", "n", "t", "a", "n", "t">>, <<"T", "h", "r", "e", "a", "d", " ", "L", "e", "a", "d">>, <<"D", "a", "t", "a", " ", "S", "c", "i", "e", "n", "t", "i", "s", "t">>,
     <<"B", "E", "N", "E", "F", "I", "T", "S", " ", "C", "L", "E", "R", "K">>, <<"P", "e", "o", " ", "p", "l", "e">>, <<>>}

DeptPeople == <<"P", "e", "o", "p", "l", "e">>
DeptEngineering == <<"E", "n", "g", "i", "n", "e", "e", "r", "i", "n", "g">>
DeptResources == <<"R", "e", "s", "o", "u", "r", "c", "e", "s">>

ClassifyDepartments ==
    {None, Some(<<>>), Some(DeptPeople), Some(DeptEngineering), Some(DeptResources),
     Some(<<"S", "a", "l", "e", "s">>)}

InitClassify ==
    /\ Enter(<<>>, FALSE, 0, 0)
    /\ run = 1
    /\ prev = None
    /\ arg_title \in ClassifyTitles
    /\ arg_department \in ClassifyDepartments
    /\ ret_hr = None

IsHrRelated ==
    /\ ret_hr = None
    /\ ret_hr' = Some(is_hr_related(arg_title, arg_department))
    /\ UNCHANGED <<arg_title, arg_department>>
    /\ UNCHANGED batchVars

NextClassify == IsHrRelated

SpecClassify == InitClassify /\ [][NextClassify]_vars

(***************************************************************************)
(* Properties.                                                             *)
(***************************************************************************)
Max(a, b) == IF a >= b THEN a ELSE b

\* The certifications of the record fetched for input position j.
CertsAt(j) == fetched[j][1].certifications

\* The positions of results that hold the rows of input position j.
RowsAt(j) == {r \in 1..Len(results) : owner[r] = j}

RECURSIVE ExpectedRows(_)
ExpectedRows(k) ==
    IF k = 0 THEN 0
    ELSE ExpectedRows(k - 1) + (IF fetched[k] = None THEN 0 ELSE Max(1, Len(CertsAt(k))))

EmptyCertFields(row) ==
    /\ row.certification = <<>>
    /\ row.certification_provider = <<>>
    /\ row.certification_type = <<>>
    /\ row.certification_issued = <<>>
    /\ row.certification_renewal = <<>>

\* C1: the number of rows equals the sum, over the URLs completed so far for
\* which a record was produced, of max(1, number of certifications): a
\* profile with no certification has exactly one row, whose five
\* certification fields are empty, a profile with N >= 1 has exactly N rows,
\* and a URL without a record has none.
C1_RowCount ==
    /\ Len(results) = ExpectedRows(i)
    /\ \A j \in 1..i :
          IF fetched[j] = None THEN RowsAt(j) = {}
          ELSE /\ Cardinality(RowsAt(j)) = Max(1, Len(CertsAt(j)))
               /\ CertsAt(j) = <<>> => \A r \in RowsAt(j) : EmptyCertFields(results[r])

\* A call has returned after fetching one profile without certifications
\* and one with at least two.
C1_Witness ==
    /\ pc = "returned"
    /\ \E j, k \in 1..Len(fetched) :
          /\ fetched[j] # None /\ CertsAt(j) = <<>>
          /\ fetched[k] # None /\ Len(CertsAt(k)) >= 2

\* C2: no URL aborts the batch: process_profiles never ends by raising.
C2_NeverAborts == pc # "raised"

PrevReturned == prev # None /\ prev[1].outcome = "returned"

\* C3: a call that returned, made in the same process and from the same
\* random state as a previous returned call, on the valid URLs of that call's
\* list alone, returns exactly the rows the previous call returned.
C3_InvalidExcluded ==
    (/\ pc = "returned"
     /\ PrevReturned
     /\ urls = ValidOnly(prev[1].urls)
     /\ seed = prev[1].seed
     /\ salt = prev[1].salt)
    => results = prev[1].results

\* The previous list had an invalid URL before a valid one, and rows exist.
C3_Witness ==
    /\ pc = "returned"
    /\ PrevReturned
    /\ urls = ValidOnly(prev[1].urls)
    /\ seed = prev[1].seed
    /\ salt = prev[1].salt
    /\ Len(prev[1].urls) = 2
    /\ ~IsValidUrl(prev[1].urls[1])
    /\ IsValidUrl(prev[1].urls[2])
    /\ Len(results) >= 2

\* C4 as stated: the callback reports a count of URLs already completed, so
\* the count it was last given never exceeds the number completed.
C4_CalledAfterProcessing ==
    calls # <<>> => calls[Len(calls)].current <= i

\* C4, amended: a callback that was passed is called once at the start of
\* each iteration, before that URL is fetched, with (1, total), (2, total),
\* ... in order; while URL number n is being handled n calls have been made
\* and n - 1 URLs are complete, and a call that returns has made exactly
\* total calls.  Without a callback nothing is called.
C4_CalledBeforeProcessing ==
    /\ ~progress_callback => calls = <<>>
    /\ progress_callback =>
          /\ calls = [k \in 1..Len(calls) |-> [current |-> k, total |-> total_urls]]
          /\ Len(calls) = (IF pc \in {"extract", "append", "raised"} THEN i + 1 ELSE i)
          /\ pc = "returned" => Len(calls) = total_urls

\* The second URL is about to be fetched: two calls made, one URL complete.
C4_Witness ==
    /\ progress_callback
    /\ pc = "extract"
    /\ i = 1
    /\ Len(calls) = 2
    /\ calls[2].current = 2

ProfileFields(row) ==
    <<row.profile_url, row.profile_name, row.company_name, row.job_title,
      row.department, row.location, row.is_hr_related>>

\* C5: rows appear in input order, the rows of one input position are
\* contiguous, follow the order of that profile's certification list and
\* carry its fields, and all carry the same profile fields, with the URL as
\* it was given.
C5_OrderPreserved ==
    /\ Len(owner) = Len(results)
    /\ \A r \in 1..(Len(results) - 1) : owner[r] <= owner[r + 1]
    /\ \A r \in 1..Len(results) :
          LET j     == owner[r]
              first == CHOOSE q \in RowsAt(j) : \A q2 \in RowsAt(j) : q <= q2
              m     == r - first + 1
          IN  /\ j \in 1..Len(fetched) /\ fetched[j] # None
              /\ ProfileFields(results[r]) = ProfileFields(results[first])
              /\ results[r].profile_url = urls[j]
              /\ results[r].profile_name = fetched[j][1].profile_name
              /\ results[r].job_title = fetched[j][1].job_title
              /\ IF CertsAt(j) = <<>> THEN EmptyCertFields(results[r])
                 ELSE /\ m \in 1..Len(CertsAt(j))
                      /\ results[r].certification = CertsAt(j)[m].name
                      /\ results[r].certification_provider = CertsAt(j)[m].provider
                      /\ results[r].certification_type = CertsAt(j)[m].type
                      /\ results[r].certification_issued = CertsAt(j)[m].issued_date
                      /\ results[r].certification_renewal = CertsAt(j)[m].renewal_date

\* Two profiles were flattened, the second with two different certifications.
C5_Witness ==
    /\ pc = "returned"
    /\ Len(fetched) = 2
    /\ fetched[1] # None /\ fetched[2] # None
    /\ Len(CertsAt(2)) >= 2
    /\ CertsAt(2)[1] # CertsAt(2)[2]

\* The input positions completed so far for which a record was produced.
Processed == {j \in 1..i : fetched[j] # None}

\* C6 as stated: the Total Profiles figure of the returned rows equals the
\* number of input profiles processed, repeated URLs included.
C6_TotalEqualsProcessed ==
    pc = "returned" => TotalProfiles(results) = Cardinality(Processed)

\* C6, amended: the Total Profiles figure equals the number of distinct URL
\* strings (as given, unstripped) among the inputs for which a record was
\* produced; it equals the number of profiles processed exactly when those
\* inputs are pairwise distinct.
C6_TotalEqualsDistinctUrls ==
    pc = "returned" =>
        /\ TotalProfiles(results) = Cardinality({urls[j] : j \in Processed})
        /\ (TotalProfiles(results) = Cardinality(Processed))
              <=> (\A j, k \in Processed : urls[j] = urls[k] => j = k)

\* The same valid URL was given twice: two profiles processed, one counted.
C6_Witness ==
    /\ pc = "returned"
    /\ Cardinality(Processed) = 2
    /\ urls[1] = urls[2]
    /\ TotalProfiles(results) = 1

\* C7: a call that returned, on the same list and from the same random state
\* as a previous returned call, returns the same rows, field for field.
C7_Deterministic ==
    (/\ pc = "returned"
     /\ PrevReturned
     /\ urls = prev[1].urls
     /\ seed = prev[1].seed)
    => results = prev[1].results

\* The host of a URL: the authority without userinfo and port.
RECURSIVE AfterUserinfo(_)
AfterUserinfo(n) ==
    IF Find(n, {"@"}) = 0 THEN n ELSE AfterUserinfo(SubSeq(n, Find(n, {"@"}) + 1, Len(n)))

HostOf(url) ==
    LET h == AfterUserinfo(Netloc(url))
        c == Find(h, {":"})
    IN  IF c = 0 THEN h ELSE SubSeq(h, 1, c - 1)

\* C8: extract_profile_data returns a record for a URL exactly when the
\* URL's host contains "linkedin.com" and its path contains "/in/".
C8_HostAndPath ==
    \A j \in 1..Len(fetched) :
        (fetched[j] # None) <=>
            (/\ Contains(HostOf(Strip(urls[j])), <<"l", "i", "n", "k", "e", "d", "i", "n", ".", "c", "o", "m">>)
             /\ Contains(Path(Strip(urls[j])), <<"/", "i", "n", "/">>))

\* The characters of job_title, a space and department, lowercased one by one.
ClassifiedText ==
    LET d == IF arg_department = None THEN <<>> ELSE arg_department[1]
        n == Len(arg_title)
    IN  [k \in 1..(n + 1 + Len(d)) |->
            IF k <= n THEN LowerChar(arg_title[k])
            ELSE IF k = n + 1 THEN " "
            ELSE LowerChar(d[k - n - 1])]

KeywordOccurs(kw, text) ==
    \E off \in 0..(Len(text) - Len(kw)) : \A k \in 1..Len(kw) : text[off + k] = kw[k]

\* C9: is_hr_related returns true iff one of the 14 keywords occurs, at any
\* offset and without regard to word boundaries, in the lowercased
\* "job_title department" text (department empty when absent); so
\* ("HR Manager", "People") and ("Talented Artist", None) are true and
\* ("Software Engineer", "Engineering") is false.
C9_KeywordSubstring ==
    /\ Len(hr_keywords) = 14
    /\ ret_hr # None =>
          /\ ret_hr[1] = (\E n \in 1..Len(hr_keywords) : KeywordOccurs(hr_keywords[n], ClassifiedText))
          /\ (arg_title = TitleHRManager /\ arg_department = Some(DeptPeople)) => ret_hr[1]
          /\ (arg_title = TitleTalentedArtist /\ arg_department = None) => ret_hr[1]
          /\ (arg_title = TitleSoftwareEngineer /\ arg_department = Some(DeptEngineering))
                => ~ret_hr[1]
          /\ (arg_title = TitleHuman /\ arg_department = Some(DeptResources)) => ret_hr[1]
          /\ (arg_title = TitleSoftwareEngineer /\ arg_department = Some(DeptResources))
                => ~ret_hr[1]

\* The over-matching call has been made and returned true.
C9_Witness ==
    /\ arg_title = TitleTalentedArtist
    /\ arg_department = None
    /\ ret_hr = Some(TRUE)

\* Every title that can be drawn classifies as HR-related with department "HR".
EveryTitleIsHr == \A t \in 1..Len(titles) : is_hr_related(titles[t], Some(<<"H", "R">>))

\* C10: every row has is_hr_related true, whatever the title drawn, as the
\* department of every fetched record is "HR"; so the HR-only filter keeps
\* every row and the HR-Related figure is the number of rows.
C10_AlwaysHr ==
    /\ \A r \in 1..Len(results) : results[r].is_hr_related /\ results[r].department = <<"H", "R">>
    /\ EveryTitleIsHr
    /\ FilterHrOnly(results) = results
    /\ HrCount(results) = Len(results)

\* Rows of two profiles with different titles have been returned.
C10_Witness ==
    /\ pc = "returned"
    /\ Len(results) >= 2
    /\ results[1].job_title # results[Len(results)].job_title

====
